---- MODULE Spec2Model ----
(***************************************************************************)
(* The quai stratum block monitor: a driver loop that, once per            *)
(* checkInterval, reads the stratum server's log through a supervisorctl   *)
(* subprocess, computes (continuity, updated) for the block heights seen,  *)
(* and writes both gauges to a Prometheus text file.                       *)
(*                                                                         *)
(* The repository holds two programs: src/main.go (the polling variant,    *)
(* "supervisorctl tail --lines=300" once per tick, filtered by timestamp)  *)
(* and src/unnamed/part_000 (the streaming variant, "supervisorctl tail    *)
(* -f").  The variable `variant` says which program a behaviour runs.      *)
(*                                                                         *)
(* Time is measured in units of half a minute.  A log line's timestamp is  *)
(* kept as its age at the tick's startTime (age = startTime - t), so       *)
(* t.After(startTime.Add(-checkInterval)) is age < checkInterval.          *)
(***************************************************************************)
EXTENDS Integers, Sequences, FiniteSets, TLC

VARIABLES
    variant,          \* "polling" (src/main.go) or "streaming" (src/unnamed/part_000)
    pc,               \* where the driver loop is
    lastBlockNumber,  \* the height stored by the last tick that stored one
    blocks,           \* the window returned by the log source, until its last use
    isContinuous,     \* this tick's continuity gauge
    isUpdated,        \* this tick's update gauge
    file,             \* the content of promFilePath
    logged,           \* what the most recent tick printed, in order
    gap,              \* time between the last two tick starts (0 inside a tick)
    unreaped,         \* subprocesses started and neither waited for nor killed
    tickStartHeight,  \* lastBlockNumber as it was when the current tick started
    readInput,        \* what one read of the log is given: the lines and the host's zone
    sinceStart        \* time.Since(start) when the last tick's work ended

vars == <<variant, pc, lastBlockNumber, blocks, isContinuous, isUpdated,
          file, logged, gap, unreaped, tickStartHeight, readInput, sinceStart>>

----------------------------------------------------------------------------
(* Bounds of the model *)

\* heights are 0..MaxHeight
MaxHeight == 2
\* a read returns at most MaxLines lines (the program asks for tailLines = 300)
MaxLines == 3
\* the oldest line is MaxAge time units old at startTime
MaxAge == 2
\* a tick's work takes at most MaxElapsed time units
MaxElapsed == 3
\* at most MaxLeaked subprocesses are left behind unreaped
MaxLeaked == 1
\* the host's local time is at most MaxZone time units ahead of or behind UTC
MaxZone == 1

(* Program constants *)

\* time.Minute, in units of half a minute
checkInterval == 2

\* what strconv.Atoi returns, with an error, for digits out of range; int is
\* 64 bits wide in the build, the checker's integers are 32 bits wide, so the
\* largest integer of the checker stands for it
MaxInt == 2147483647
MinInt == -MaxInt - 1

Heights == 0..MaxHeight
Ages == (checkInterval - 1)..MaxAge
Zones == (-MaxZone)..MaxZone

----------------------------------------------------------------------------
(* Log lines.  kind says how far a line gets through the parser:           *)
(*   "broadcast"  the full shape, a valid timestamp, digits in range       *)
(*   "badtime"    the full shape, but time.Parse rejects the timestamp     *)
(*   "bignum"     the full shape, but the block digits overflow int        *)
(*   "other"      no "Broadcasting block ... stratum miners" in it          *)

Line(k, a, h) == [kind |-> k, age |-> a, block |-> h]

Lines ==
    {Line("broadcast", a, h) : a \in Ages, h \in Heights}
    \cup {Line("badtime", checkInterval - 1, MaxHeight),
          Line("bignum", checkInterval - 1, 0),
          Line("other", checkInterval - 1, 0)}

RECURSIVE SeqsUpTo(_, _)
SeqsUpTo(S, n) ==
    IF n = 0 THEN {<<>>}
    ELSE LET shorter == SeqsUpTo(S, n - 1)
         IN  shorter \cup {Append(s, x) : s \in {t \in shorter : Len(t) = n - 1}, x \in S}

LogTails == SeqsUpTo(Lines, MaxLines)

\* time.Parse("2006/01/02 15:04:05", tStr): the layout names no zone, so the
\* digits are read as UTC, while the stratum server printed them in the host's
\* local time.  On a host whose local time is `zone` ahead of UTC the parsed
\* instant is `zone` later than the instant the line was printed at.
parsedAge(age, zone) == age - zone

\* logRegex.FindStringSubmatch, time.Parse, strconv.Atoi
parseTimeAndBlock(line, zone) ==
    IF line.kind = "other" THEN [ok |-> FALSE, age |-> 0, block |-> 0]
    ELSE IF line.kind = "badtime" THEN [ok |-> FALSE, age |-> 0, block |-> 0]
    ELSE IF line.kind = "bignum" THEN [ok |-> FALSE, age |-> 0, block |-> 0]
    ELSE [ok |-> TRUE, age |-> parsedAge(line.age, zone), block |-> line.block]

\* t.After(afterTime) with afterTime = startTime - checkInterval
After(age) == age < checkInterval

\* the filter loop of readRecentBlocks
RECURSIVE recentBlocks(_, _)
recentBlocks(lines, zone) ==
    IF lines = <<>> THEN <<>>
    ELSE LET p == parseTimeAndBlock(lines[Len(lines)], zone)
             before == recentBlocks(SubSeq(lines, 1, Len(lines) - 1), zone)
         IN  IF ~p.ok THEN before
             ELSE IF After(p.age) THEN Append(before, p.block)
             ELSE before

\* the scan loop with the overflowing digits wrapped around instead of saturated
RECURSIVE streamBlocksWrapping(_)
streamBlocksWrapping(lines) ==
    IF lines = <<>> THEN <<>>
    ELSE LET l == lines[Len(lines)]
             before == streamBlocksWrapping(SubSeq(lines, 1, Len(lines) - 1))
         IN  IF l.kind = "other" THEN before
             ELSE IF l.kind = "bignum" THEN Append(before, MinInt)
             ELSE Append(before, l.block)

\* the scan loop of readBlocksFromSupervisor: blockRegex is not anchored and
\* has no timestamp group, and the error of strconv.Atoi is dropped
RECURSIVE streamBlocks(_)
streamBlocks(lines) ==
    IF lines = <<>> THEN <<>>
    ELSE LET l == lines[Len(lines)]
             before == streamBlocks(SubSeq(lines, 1, Len(lines) - 1))
         IN  IF l.kind = "other" THEN before
             ELSE IF l.kind = "bignum" THEN Append(before, MaxInt)
             ELSE Append(before, l.block)

\* the windows a read can return
PollingWindows == {recentBlocks(ls, z) : ls \in LogTails, z \in Zones}
StreamingWindows == {streamBlocks(ls) : ls \in LogTails}

----------------------------------------------------------------------------
(* The window sampler *)

\* x + 1 on int
Inc(x) == IF x = MaxInt THEN MinInt ELSE x + 1

RECURSIVE continuityFrom(_, _)
continuityFrom(bs, i) ==
    IF i > Len(bs) THEN 1
    ELSE IF bs[i] # Inc(bs[i - 1]) THEN 0
    ELSE continuityFrom(bs, i + 1)

\* checkContinuity with the guard written as "no blocks is a discontinuity"
checkContinuityEmptyBroken(bs) ==
    IF Len(bs) = 0 THEN 0
    ELSE IF Len(bs) = 1 THEN 1
    ELSE continuityFrom(bs, 2)

checkContinuity(bs) ==
    IF Len(bs) <= 1 THEN 1 ELSE continuityFrom(bs, 2)

getLatestBlock(bs) ==
    IF Len(bs) = 0 THEN -1 ELSE bs[Len(bs)]

\* the update check written as "the height did not grow"
updatedFlagOrdered(current, last) ==
    IF current <= last THEN 0 ELSE 1

\* isUpdated of main: 0 when the current block number equals the stored one
updatedFlag(current, last) ==
    IF current = last THEN 0 ELSE 1

\* the update check stores every block number that differs from the stored one
storedPollingUnguarded(current, last) ==
    IF current = last THEN last ELSE current

\* lastBlockNumber after the update check of src/main.go
storedPolling(current, last) ==
    IF current = last THEN last
    ELSE IF current > 0 THEN current
    ELSE last

\* lastBlockNumber after the update check of src/unnamed/part_000
storedStreaming(current, last) ==
    IF current = last THEN last ELSE current

----------------------------------------------------------------------------
(* The metric writer *)

Digit == <<"0", "1", "2", "3", "4", "5", "6", "7", "8", "9">>

\* fmt.Sprintf("%d", n)
RECURSIVE FormatInt(_)
FormatInt(n) ==
    IF n < 0 THEN "-" \o FormatInt(-n)
    ELSE IF n < 10 THEN Digit[n + 1]
    ELSE FormatInt(n \div 10) \o Digit[(n % 10) + 1]

\* strings.Join
RECURSIVE Join(_, _)
Join(elems, sep) ==
    IF elems = <<>> THEN ""
    ELSE IF Len(elems) = 1 THEN elems[1]
    ELSE elems[1] \o sep \o Join(Tail(elems), sep)

continuityLine(c) == "quai_stratum_block_number_continuity " \o FormatInt(c)
updateLine(u) == "quai_stratum_block_number_update " \o FormatInt(u)

\* the content without the final newline
promContentNoNewline(c, u) ==
    Join(<<continuityLine(c), updateLine(u)>>, "\n")

\* the content writePromMetrics hands to os.WriteFile
promContent(c, u) ==
    Join(<<continuityLine(c), updateLine(u), "">>, "\n")

NoFile == [exists |-> FALSE, data |-> ""]
FileWith(s) == [exists |-> TRUE, data |-> s]
NoInput == [lines |-> <<>>, zone |-> 0]

\* os.WriteFile(promFilePath, content, 0644): it opens with O_TRUNC, writes,
\* closes.  A failure to open leaves the file as it was; a failure of the write
\* leaves the truncated file, or as much of the content as was written.
writeOutcomes(old, c, u) ==
    {[err |-> FALSE, file |-> FileWith(promContent(c, u))],
     [err |-> TRUE,  file |-> old],
     [err |-> TRUE,  file |-> FileWith("")],
     [err |-> TRUE,  file |-> FileWith(continuityLine(c) \o "\n")]}

----------------------------------------------------------------------------
(* The driver loop *)

Init ==
    /\ variant \in {"polling", "streaming"}
    /\ pc = "tick"
    /\ lastBlockNumber = IF variant = "polling" THEN -1 ELSE 0
    /\ blocks = <<>>
    /\ isContinuous = 0
    /\ isUpdated = 0
    /\ file = NoFile
    /\ logged = <<>>
    /\ gap = 0
    /\ unreaped = 0
    /\ tickStartHeight = lastBlockNumber
    /\ readInput = NoInput
    /\ sinceStart = 0

\* startTime := time.Now(); exec.Command, cmd.StdoutPipe, cmd.Start
Spawn ==
    /\ pc = "tick"
    /\ \E started \in BOOLEAN :
          /\ pc' = IF started THEN "scan" ELSE "readErr"
          /\ unreaped' = IF started THEN unreaped + 1 ELSE unreaped
    /\ blocks' = <<>>
    /\ isContinuous' = 0
    /\ isUpdated' = 0
    /\ logged' = <<>>
    /\ gap' = 0
    /\ tickStartHeight' = lastBlockNumber
    /\ sinceStart' = 0
    /\ UNCHANGED <<variant, lastBlockNumber, file, readInput>>

\* the scanner loop ends at the end of the subprocess's output
ScanEOF ==
    /\ pc = "scan"
    /\ pc' = "wait"
    /\ UNCHANGED <<variant, lastBlockNumber, blocks, isContinuous, isUpdated,
                   file, logged, gap, unreaped, tickStartHeight, readInput, sinceStart>>

\* the scanner loop ends with scanner.Err() # nil.  src/main.go returns at
\* once, without cmd.Wait or a kill: its subprocess stays unreaped.  part_000
\* returns through its deferred calls.
ScanFail ==
    /\ pc = "scan"
    /\ unreaped <= MaxLeaked
    /\ pc' = IF variant = "polling" THEN "readErr" ELSE "waitErr"
    /\ UNCHANGED <<variant, lastBlockNumber, blocks, isContinuous, isUpdated,
                   file, logged, gap, unreaped, tickStartHeight, readInput, sinceStart>>

\* cmd.Wait returns; a non-zero exit of the subprocess of src/main.go is an
\* error of the read and no lines are returned
WaitDoneExitIsError ==
    /\ pc \in {"wait", "waitErr"}
    /\ IF variant = "polling"
       THEN \E exitOk \in BOOLEAN, bs \in PollingWindows :
               IF exitOk
               THEN /\ blocks' = bs
                    /\ logged' = <<"DEBUG lines", "DEBUG blocks">>
                    /\ pc' = "sample"
               ELSE /\ blocks' = <<>>
                    /\ logged' = <<"WARN exit">>
                    /\ pc' = "readErr"
       ELSE IF pc = "wait"
       THEN \E bs \in StreamingWindows :
               /\ blocks' = bs
               /\ logged' = logged
               /\ pc' = "sample"
       ELSE /\ blocks' = <<>>
            /\ logged' = logged
            /\ pc' = "readErr"
    /\ unreaped' = unreaped - 1
    /\ UNCHANGED <<variant, lastBlockNumber, isContinuous, isUpdated,
                   file, gap, tickStartHeight, readInput, sinceStart>>

\* cmd.Wait returns.  src/main.go: a non-zero exit is printed as a warning,
\* then the lines are filtered.  part_000: the deferred cmd.Wait, then
\* the deferred Kill, then the return of (blocks, scanner.Err()).
WaitDone ==
    /\ pc \in {"wait", "waitErr"}
    /\ IF variant = "polling"
       THEN \E exitOk \in BOOLEAN, bs \in PollingWindows :
               /\ blocks' = bs
               /\ logged' = (IF exitOk THEN <<>> ELSE <<"WARN exit">>)
                               \o <<"DEBUG lines", "DEBUG blocks">>
               /\ pc' = "sample"
       ELSE IF pc = "wait"
       THEN \E bs \in StreamingWindows :
               /\ blocks' = bs
               /\ logged' = logged
               /\ pc' = "sample"
       ELSE /\ blocks' = <<>>
            /\ logged' = logged
            /\ pc' = "readErr"
    /\ unreaped' = unreaped - 1
    /\ UNCHANGED <<variant, lastBlockNumber, isContinuous, isUpdated,
                   file, gap, tickStartHeight, readInput, sinceStart>>

\* the error of the read ends the program
HandleReadErrorFatal ==
    /\ pc = "readErr"
    /\ logged' = Append(logged, "ERROR read")
    /\ pc' = "exit"
    /\ UNCHANGED <<variant, lastBlockNumber, blocks, isContinuous, isUpdated,
                   file, gap, unreaped, tickStartHeight, readInput, sinceStart>>

\* the error of the read also forgets the stored height
HandleReadErrorReset ==
    /\ pc = "readErr"
    /\ logged' = Append(logged, "ERROR read")
    /\ lastBlockNumber' = -1
    /\ IF variant = "polling"
       THEN /\ pc' = "sleep"
            /\ gap' = gap
            /\ sinceStart' = sinceStart
       ELSE \E e \in 0..MaxElapsed :
               /\ pc' = "tick"
               /\ gap' = e + checkInterval
               /\ sinceStart' = e
    /\ UNCHANGED <<variant, blocks, isContinuous, isUpdated,
                   file, unreaped, tickStartHeight, readInput>>

\* if err != nil: print, wait for the next period, continue
HandleReadError ==
    /\ pc = "readErr"
    /\ logged' = Append(logged, "ERROR read")
    /\ IF variant = "polling"
       THEN /\ pc' = "sleep"
            /\ gap' = gap
            /\ sinceStart' = sinceStart
       ELSE \E e \in 0..MaxElapsed :
               /\ pc' = "tick"
               /\ gap' = e + checkInterval
               /\ sinceStart' = e
    /\ UNCHANGED <<variant, lastBlockNumber, blocks, isContinuous, isUpdated,
                   file, unreaped, tickStartHeight, readInput>>

\* checkContinuity, getLatestBlock and the update check
Sample ==
    /\ pc = "sample"
    /\ LET current == getLatestBlock(blocks)
       IN  /\ isContinuous' = checkContinuity(blocks)
           /\ isUpdated' = updatedFlag(current, lastBlockNumber)
           /\ lastBlockNumber' =
                 IF variant = "polling"
                 THEN storedPolling(current, lastBlockNumber)
                 ELSE storedStreaming(current, lastBlockNumber)
    /\ pc' = "write"
    /\ UNCHANGED <<variant, blocks, file, logged, gap, unreaped, tickStartHeight, readInput, sinceStart>>

\* writePromMetrics, the print of its error, and the debug print of src/main.go
WriteMetrics ==
    /\ pc = "write"
    /\ \E w \in writeOutcomes(file, isContinuous, isUpdated) :
          /\ file' = w.file
          /\ logged' = logged
                         \o (IF w.err THEN <<"ERROR write">> ELSE <<>>)
                         \o (IF variant = "polling" THEN <<"DEBUG tick">> ELSE <<>>)
    /\ blocks' = <<>>
    /\ pc' = "sleep"
    /\ UNCHANGED <<variant, lastBlockNumber, isContinuous, isUpdated,
                   gap, unreaped, tickStartHeight, readInput, sinceStart>>

\* sleepDuration := checkInterval - time.Since(start)
sleepDuration(elapsed) == checkInterval - elapsed

\* sleepUntilNext, and the same lines at the end of part_000's loop
SleepUntilNext ==
    /\ pc = "sleep"
    /\ \E e \in 0..MaxElapsed :
          /\ gap' = IF sleepDuration(e) > 0 THEN e + sleepDuration(e) ELSE e
          /\ sinceStart' = e
    /\ pc' = "tick"
    /\ UNCHANGED <<variant, lastBlockNumber, blocks, isContinuous, isUpdated,
                   file, logged, unreaped, tickStartHeight, readInput>>

Next ==
    \/ Spawn
    \/ ScanEOF
    \/ ScanFail
    \/ WaitDone
    \/ HandleReadError
    \/ Sample
    \/ WriteMetrics
    \/ SleepUntilNext

Spec == Init /\ [][Next]_vars

\* one read of src/main.go on its own: readRecentBlocks is given the lines the
\* subprocess printed, on a host in some zone, and filters them
InitRead ==
    /\ variant = "polling"
    /\ pc = "filter"
    /\ lastBlockNumber = -1
    /\ blocks = <<>>
    /\ isContinuous = 0
    /\ isUpdated = 0
    /\ file = NoFile
    /\ logged = <<>>
    /\ gap = 0
    /\ unreaped = 0
    /\ tickStartHeight = -1
    /\ readInput \in [lines : LogTails, zone : Zones]
    /\ sinceStart = 0

FilterLines ==
    /\ pc = "filter"
    /\ blocks' = recentBlocks(readInput.lines, readInput.zone)
    /\ logged' = <<"DEBUG lines", "DEBUG blocks">>
    /\ pc' = "filtered"
    /\ UNCHANGED <<variant, lastBlockNumber, isContinuous, isUpdated,
                   file, gap, unreaped, tickStartHeight, readInput, sinceStart>>

ReadSpec == InitRead /\ [][FilterLines]_vars

\* the program of src/main.go alone
InitPolling == Init /\ variant = "polling"
SpecPolling == InitPolling /\ [][Next]_vars

\* a sequential program takes its next step; the calls it blocks in return
LiveSpec == Spec /\ WF_vars(Next)

\* the driver takes its own steps; the scanner loop and cmd.Wait return only
\* when the subprocess closes its output or exits, which the program does not
\* force: the read has no timeout and no kill before the return
DriverFairSpec ==
    /\ Spec
    /\ WF_vars(Spawn)
    /\ WF_vars(HandleReadError)
    /\ WF_vars(Sample)
    /\ WF_vars(WriteMetrics)
    /\ WF_vars(SleepUntilNext)

----------------------------------------------------------------------------
(* What the claims speak of *)

Printed(m) == \E i \in DOMAIN logged : logged[i] = m

\* the last element of the window, or -1 for the empty window
TerminalValue(bs) == IF bs = <<>> THEN -1 ELSE bs[Len(bs)]

DistinctHeights(bs) == {bs[i] : i \in DOMAIN bs}
MaxOf(S) == CHOOSE x \in S : \A y \in S : y <= x
MinOf(S) == CHOOSE x \in S : \A y \in S : x <= y

\* continuity as the set of distinct heights being gap-free
GapFreeContinuity(bs) ==
    IF Len(bs) <= 1 THEN 1
    ELSE LET D == DistinctHeights(bs)
         IN  IF MaxOf(D) - MinOf(D) + 1 = Cardinality(D) THEN 1 ELSE 0

\* the reorderings of a window
Reorderings(bs) ==
    {[i \in DOMAIN bs |-> bs[f[i]]] : f \in Permutations(DOMAIN bs)}

\* the two-line file for the gauges (c, u)
ExpectedFile(c, u) ==
    CASE c = 0 /\ u = 0 ->
           "quai_stratum_block_number_continuity 0\nquai_stratum_block_number_update 0\n"
      [] c = 0 /\ u = 1 ->
           "quai_stratum_block_number_continuity 0\nquai_stratum_block_number_update 1\n"
      [] c = 1 /\ u = 0 ->
           "quai_stratum_block_number_continuity 1\nquai_stratum_block_number_update 0\n"
      [] c = 1 /\ u = 1 ->
           "quai_stratum_block_number_continuity 1\nquai_stratum_block_number_update 1\n"
      [] OTHER -> "no such gauges"

\* the tick came through writePromMetrics and the write returned no error
WriteSucceeded ==
    pc = "sleep" /\ ~Printed("ERROR read") /\ ~Printed("ERROR write")

----------------------------------------------------------------------------
\* C1: for every window, checkContinuity returns 1 when the window has 0 or 1
\* elements and otherwise returns 1 exactly when the set of distinct heights
\* is gap-free (max - min + 1 = number of distinct heights); so a window of
\* repeated copies of one height has continuity 1.
C1_ContinuityIsGapFreeness ==
    [][pc = "sample" => isContinuous' = GapFreeContinuity(blocks)]_vars

\* C2: a tick whose window is empty reports updated = 0 and leaves
\* lastBlockNumber unchanged, whatever lastBlockNumber was before.
C2_EmptyTickNotUpdated ==
    [][pc = "sample" /\ blocks = <<>>
          => isUpdated' = 0 /\ lastBlockNumber' = lastBlockNumber]_vars

C4_ReadErrorStillWrites ==
    [][pc = "readErr" => pc' = "sample" /\ blocks' = <<>>]_vars

C6_StoredHeightFrame ==
    [][pc = "sample"
          => /\ \/ lastBlockNumber' = lastBlockNumber
                \/ blocks # <<>> /\ lastBlockNumber' = MaxOf(DistinctHeights(blocks))
             /\ (lastBlockNumber' # lastBlockNumber
                   => /\ TerminalValue(blocks) > 0
                      /\ TerminalValue(blocks) # lastBlockNumber)]_vars

\* C7: after a tick whose metric write succeeds, the file holds exactly the
\* continuity line, the update line and a final newline, with the gauges that
\* tick computed, both 0 or 1.
C7_FileIsTheTwoGaugeLines ==
    WriteSucceeded
       => /\ isContinuous \in {0, 1}
          /\ isUpdated \in {0, 1}
          /\ file = FileWith(ExpectedFile(isContinuous, isUpdated))

\* a successful write over an earlier tick's different content
C7_Witness ==
    /\ WriteSucceeded
    /\ isContinuous = 0
    /\ isUpdated = 1
    /\ file.exists

\* C8: on a tick where the write fails, the file is as it was before the tick:
\* never truncated, empty or holding a single line.
C8_FailedWriteLeavesFile ==
    [][pc = "write" /\ (\E i \in DOMAIN logged' : logged'[i] = "ERROR write")
          => file' = file]_vars

C10_ContinuityOrderInsensitive ==
    [][pc = "sample"
          => \A q \in Reorderings(blocks) : checkContinuity(q) = isContinuous']_vars

\* C11: lastBlockNumber is never smaller than -1, whatever the ticks were:
\* empty windows, windows of any heights, source errors, write failures.
C11_StoredHeightAtLeastSentinel ==
    lastBlockNumber >= -1

\* the sentinel is stored again after a tick had stored a height, and a tick
\* has stored the largest height a line can give
C11_Witness ==
    /\ pc = "write"
    /\ \/ lastBlockNumber = -1 /\ isUpdated = 1
       \/ lastBlockNumber = MaxInt

\* C12 as stated: after a tick in which the log source returned an error or
\* the metric write failed, lastBlockNumber is what it was before the tick.
C12_StoredOnlyOnSuccess ==
    (pc \in {"sleep", "tick"} /\ (Printed("ERROR read") \/ Printed("ERROR write")))
       => lastBlockNumber = tickStartHeight

\* C12, amended: after a tick in which the log source returned an error,
\* lastBlockNumber is what it was before the tick; the sampler stores the
\* height before the metric write, and a failed write does not undo it.
C12_StoredUnlessReadFails ==
    /\ Printed("ERROR read") => lastBlockNumber = tickStartHeight
    /\ (pc = "sleep" /\ lastBlockNumber # tickStartHeight) => isUpdated = 1

\* a tick ended in a read error after a height had been stored
C12_Witness ==
    /\ pc = "tick"
    /\ Printed("ERROR read")
    /\ lastBlockNumber > 0

\* C13: the subprocess is never awaited indefinitely inside a tick: every tick
\* that started its read finishes it, whatever the subprocess does, and the
\* next tick starts.
C13_ReadAlwaysReturns ==
    (pc = "scan") ~> (pc = "tick")

\* C14: at most one subprocess spawned by the probe is alive or unreaped at
\* any time: every exit path of the read has waited for or killed it before
\* the next tick spawns another.
C14_OneSubprocess ==
    unreaped <= 1

\* the heights of the lines of the recognized shape whose timestamp is
\* strictly after tickStart - windowDuration, in arrival order
RECURSIVE RecentHeights(_)
RecentHeights(ls) ==
    IF ls = <<>> THEN <<>>
    ELSE IF Head(ls).kind = "broadcast" /\ Head(ls).age < checkInterval
         THEN <<Head(ls).block>> \o RecentHeights(Tail(ls))
         ELSE RecentHeights(Tail(ls))

\* C15: in the polling variant, blocks is exactly the arrival-ordered
\* sequence of the heights of the returned lines that match the recognized
\* shape and whose timestamp is strictly after tickStart - windowDuration;
\* every other line contributes nothing.
C15_WindowIsRecentMatches ==
    pc = "filtered" => blocks = RecentHeights(readInput.lines)

\* C16: after each tick, a tick that ended in an error of the read included,
\* the driver sleeps until tickStart + windowDuration, and starts the next
\* tick at once when that instant is already past; consecutive tick starts
\* are never less than windowDuration apart.
C16_NextTickAtPeriodEnd ==
    (pc = "tick" /\ gap > 0)
       => /\ gap = (IF sinceStart < checkInterval THEN checkInterval ELSE sinceStart)
          /\ gap >= checkInterval

\* C17: in the polling program a non-zero exit of the subprocess is a warning
\* and not an error: the read returns its window (the matched lines that
\* arrived included), no read error is printed, and the tick goes on to
\* compute the sample and to call the metric write.
C17_NonZeroExitIsWarning ==
    Printed("WARN exit")
       => /\ variant = "polling"
          /\ ~Printed("ERROR read")
          /\ pc \in {"sample", "write", "sleep", "tick"}
          /\ pc = "sample" => blocks \in PollingWindows
          /\ pc \in {"sleep", "tick"} => Printed("DEBUG tick")

\* a non-zero exit after a matched line arrived: the window is handed to the sampler
C17_Witness ==
    /\ pc = "sample"
    /\ Printed("WARN exit")
    /\ blocks # <<>>

TypeOK ==
    /\ variant \in {"polling", "streaming"}
    /\ pc \in {"tick", "scan", "wait", "waitErr", "readErr", "sample", "write", "sleep"}
    /\ lastBlockNumber \in Int
    /\ isContinuous \in {0, 1}
    /\ isUpdated \in {0, 1}
    /\ unreaped \in 0..(MaxLeaked + 1)
====
